---- MODULE Spec2Model ----
(***************************************************************************)
(* Model of the DManV6 controller                                          *)
(* (hummingbot/smart_components/controllers/dman_v6.py).                    *)
(*                                                                         *)
(* The controller is a tick-driven policy: determine_actions() reads the   *)
(* executor report (a table of DCA executors), the close price, the clock  *)
(* and the candles' readiness, and returns a list of create / stop / store *)
(* actions.  Its only own mutable state is the set expired_dcas.           *)
(* update_strategy_markets_dict() adds the controller's market to a        *)
(* mapping the host holds.                                                 *)
(*                                                                         *)
(* Numbers.  Prices are integers.  Fractions of the configuration are kept *)
(* as integers over a fixed scale: spreads in 1/SpreadScale, the distance  *)
(* min_distance_between_dca in 1/DistanceScale.  A level price             *)
(* close_price * (1 - spread) is kept as the integer                       *)
(* close_price * (SpreadScale - spread), i.e. in units of 1/SpreadScale;   *)
(* a quotient amount / price is kept as the pair <<amount, price>>.        *)
(* The comparisons of lines 122 and 126 are done in floating point by the  *)
(* code; on the values used here every product is exact, and the model     *)
(* compares the exact rationals.                                           *)
(***************************************************************************)
EXTENDS Integers, Sequences, FiniteSets, TLC

VARIABLES
    config,             \* config: n_levels and the spreads, fixed at construction
    max_dca_per_side,   \* config.max_dca_per_side, fixed at construction
    expired_dcas,       \* self.expired_dcas
    dca_executors,      \* self._executor_handler_report.dca_executors (rows, in order)
    now,                \* what time.time() returns
    close_price,        \* what get_close_price(trading_pair) returned to the latest call
    all_candles_ready,  \* what self.all_candles_ready was at the latest call
    actions,            \* the list returned by the latest determine_actions()
    outcome,            \* "idle" | "returned" | "raised": how the latest call ended
    expired_before,     \* expired_dcas as it was when the latest call started
    stop_count,         \* per id: how many stop actions were returned so far
    pending,            \* creates the engine accepted, not opened yet (id, side, time)
    markets_dict,       \* the caller's mapping passed to update_strategy_markets_dict
    markets_before,     \* markets_dict as it was when the latest such call started
    markets_calls       \* how many such calls were made on this mapping

vars == << config, max_dca_per_side, expired_dcas, dca_executors, now,
           close_price, all_candles_ready, actions, outcome, expired_before,
           stop_count, pending, markets_dict, markets_before, markets_calls >>

markets_vars == << markets_dict, markets_before, markets_calls >>

----------------------------------------------------------------------------
(* Bounds of the model *)

MaxRows == 2          \* rows of the executor report
MaxCalls == 2         \* calls of update_strategy_markets_dict on one mapping

(* Configuration (DManV6Config defaults) *)

dca_refresh_time == 60
DistanceScale == 100
min_distance_between_dca == 3       \* 0.03, in 1/DistanceScale
SpreadScale == 1000
top_order_start_spread == 1         \* 0.001, in 1/SpreadScale
start_spread == 20                  \* 0.02, in 1/SpreadScale
spread_ratio_increase == 2          \* 2.0
order_amount == 10
amount_ratio_num == 3               \* amount_ratio_increase = 1.5 = 3/2
amount_ratio_den == 2
n_levels == 5

exchange == "binance_perpetual"
trading_pair == "DOGE-USDT"

Exchanges == {exchange, "kucoin"}
TradingPairs == {trading_pair, "BTC-USDT", "ETH-USDT"}
Uuids == 1..(MaxRows + 2)    \* pool of executor ids: every row, and two creates
Sides == {"BUY", "SELL"}
FillPrices == {100}
DefaultMaxPerSide == 3
PerSideValues == {0, 1, 2, DefaultMaxPerSide}    \* values of max_dca_per_side
(* The clock moves in steps of dca_refresh_time; executors are opened at   *)
(* the times OpenTimes.                                                    *)
Times == {0, dca_refresh_time, 2 * dca_refresh_time}
OpenTimes == {0, dca_refresh_time}
Prices == {96, 97, 103, 104}         \* close prices of a sound feed
InvalidPrices == {0 - 1, 0}         \* close prices of a broken feed
(* Configurations other than the default one: level counts (0 is what a    *)
(* mistaken configuration file may hold), top spreads below, at and above  *)
(* start_spread, and two ratios.                                           *)
LevelCounts == {0, 1, 2, 3}
TopSpreads == {top_order_start_spread, start_spread, start_spread + 10}
SpreadRatios == {spread_ratio_increase, spread_ratio_increase + 1}

----------------------------------------------------------------------------
(* Helpers *)

RECURSIVE Pow(_, _)
Pow(b, e) == IF e = 0 THEN 1 ELSE b * Pow(b, e - 1)

Range(s) == {s[i] : i \in 1..Len(s)}

MinOf(S) == CHOOSE x \in S : \A y \in S : x <= y
MaxOf(S) == CHOOSE x \in S : \A y \in S : x >= y

(* Distributions.geometric(n_levels, start, ratio): start, start*ratio, ...  *)
(* with ratio = rnum/rden; element i is kept scaled by rden^(n-1).          *)
geometric(n, start, rnum, rden) ==
    [i \in 1..n |-> start * Pow(rnum, i - 1) * Pow(rden, n - i)]

(* The part of the configuration the ladders are built from *)
DManV6Config(levels, top_spread, first_spread, ratio) ==
    [n_levels |-> levels, top_order_start_spread |-> top_spread,
     start_spread |-> first_spread, spread_ratio_increase |-> ratio]

DefaultConfig ==
    DManV6Config(n_levels, top_order_start_spread, start_spread,
                 spread_ratio_increase)

Configs ==
    {DManV6Config(levels, top_spread, start_spread, ratio) :
        levels \in LevelCounts, top_spread \in TopSpreads,
        ratio \in SpreadRatios}

(* __init__, lines 54-58: self.amounts and self.spreads are computed once, *)
(* at construction; nothing there looks at the values of the               *)
(* configuration.  Constructed holds them for every configuration tried.   *)
InitAmounts(cfg) ==
    geometric(cfg.n_levels, order_amount, amount_ratio_num, amount_ratio_den)

InitSpreads(cfg) ==
    <<cfg.top_order_start_spread>>
    \o geometric(cfg.n_levels - 1, cfg.start_spread,
                 cfg.spread_ratio_increase, 1)

Constructed ==
    [cfg \in Configs \cup {DefaultConfig} |->
        [amounts |-> InitAmounts(cfg), spreads |-> InitSpreads(cfg)]]

amounts == Constructed[config].amounts

spreads == Constructed[config].spreads

----------------------------------------------------------------------------
(* The executor report.  A row of dca_executors: *)
Row(id, side, status, ts, pnl, filled, avg) ==
    [dca_id |-> id, side |-> side, status |-> status, timestamp |-> ts,
     net_pnl_quote |-> pnl, filled_amount |-> filled,
     current_position_average_price |-> avg]

RowIds(df) == {df[i].dca_id : i \in 1..Len(df)}

(* Actions returned to the engine *)
StopDCAExecutorAction(id) == [type |-> "stop", dca_id |-> id]
StoreDCAExecutorAction(id) == [type |-> "store", dca_id |-> id]
CreateDCAExecutorAction(id, side, ts, prices, amounts_quote) ==
    [type |-> "create", dca_id |-> id, side |-> side, timestamp |-> ts,
     prices |-> prices, amounts_quote |-> amounts_quote]

(* uuid.uuid4(): an id no executor, no pending action and no remembered    *)
(* stop carries.  The k-th draw of one call takes the k-th smallest free   *)
(* id of the pool.                                                         *)
UsedIds == RowIds(dca_executors) \cup expired_dcas
           \cup {c.dca_id : c \in pending}
FreeIds == Uuids \ UsedIds
RECURSIVE NthFree(_, _)
NthFree(free, k) ==
    IF k = 1 THEN MinOf(free) ELSE NthFree(free \ {MinOf(free)}, k - 1)
uuid4(k) == NthFree(FreeIds, k)

----------------------------------------------------------------------------
(* update_strategy_markets_dict, lines 61-66.  A mapping is a function     *)
(* from the exchanges it has as keys to sets of trading pairs.             *)
UpdateReplacingPairs(markets) ==    \* line 65 assigning as line 63 does
    [e \in DOMAIN markets \cup {exchange} |->
        IF e = exchange THEN {trading_pair} ELSE markets[e]]

update_strategy_markets_dict(markets) ==
    IF exchange \notin DOMAIN markets
    THEN [e \in DOMAIN markets \cup {exchange} |->
            IF e = exchange THEN {trading_pair} ELSE markets[e]]
    ELSE [markets EXCEPT ![exchange] = @ \cup {trading_pair}]

----------------------------------------------------------------------------
(* create_dca_action(trade_type, close_price), lines 137-158.              *)
(* prices[i] = close_price * (1 -/+ spreads[i]);                           *)
(* amounts_usd[i] = amounts[i] / prices[i] over zip(amounts, prices),      *)
(* which raises (division by zero) when a price is zero.                   *)
LevelPrices(trade_type, price) ==
    LET self_spreads == spreads
    IN  [i \in 1..Len(self_spreads) |->
            IF trade_type = "BUY" THEN price * (SpreadScale - self_spreads[i])
                                  ELSE price * (SpreadScale + self_spreads[i])]

ZipLen(a, b) == IF Len(a) < Len(b) THEN Len(a) ELSE Len(b)

create_dca_action(trade_type, price, id) ==
    LET prices == LevelPrices(trade_type, price)
        self_amounts == amounts
        n == ZipLen(self_amounts, prices)
    IN  IF \E i \in 1..n : prices[i] = 0
        THEN [raised |-> TRUE, action |-> << >>]
        ELSE [raised |-> FALSE,
              action |-> << CreateDCAExecutorAction(id, trade_type, now, prices,
                              [i \in 1..n |-> << self_amounts[i], prices[i] >>]) >>]

----------------------------------------------------------------------------
(* create_actions_proposal, lines 102-135 *)
IsNotTerminated(r) == r.status # "TERMINATED"
IsBuy(r) == r.side = "BUY"
IsSell(r) == r.side = "SELL"

active_dca_executors(df) == SelectSeq(df, IsNotTerminated)
long_dcas(df) == SelectSeq(active_dca_executors(df), IsBuy)
short_dcas(df) == SelectSeq(active_dca_executors(df), IsSell)

AveragePrices(rows) == {rows[i].current_position_average_price : i \in 1..Len(rows)}
min_long_dca_average_price(df) == MinOf(AveragePrices(long_dcas(df)))
max_short_dca_average_price(df) == MaxOf(AveragePrices(short_dcas(df)))

(* Variants of the long-side decision, each with one plausible slip *)
LongFlagCapFirst(df, price, max_per_side) ==      \* the cap also applies to an empty side
    LET n_long_dcas == Len(long_dcas(df))
    IN  /\ n_long_dcas < max_per_side
        /\ \/ n_long_dcas = 0
           \/ /\ min_long_dca_average_price(df) # 0
              /\ price * DistanceScale <
                   min_long_dca_average_price(df)
                     * (DistanceScale - min_distance_between_dca)

LongFlagNonStrict(df, price, max_per_side) ==     \* <= instead of < on the distance
    IF Len(df) = 0 THEN TRUE
    ELSE LET n_long_dcas == Len(long_dcas(df))
         IN  IF n_long_dcas = 0 THEN TRUE
             ELSE /\ n_long_dcas < max_per_side
                  /\ min_long_dca_average_price(df) # 0
                  /\ price * DistanceScale <=
                       min_long_dca_average_price(df)
                         * (DistanceScale - min_distance_between_dca)

LongFlagCapInclusive(df, price, max_per_side) ==  \* <= instead of < on the count
    IF Len(df) = 0 THEN TRUE
    ELSE LET n_long_dcas == Len(long_dcas(df))
         IN  IF n_long_dcas = 0 THEN TRUE
             ELSE /\ n_long_dcas <= max_per_side
                  /\ min_long_dca_average_price(df) # 0
                  /\ price * DistanceScale <
                       min_long_dca_average_price(df)
                         * (DistanceScale - min_distance_between_dca)

LongFlagCountsBothSides(df, price, max_per_side) ==   \* the cap counts every side
    IF Len(df) = 0 THEN TRUE
    ELSE LET n_long_dcas == Len(long_dcas(df))
         IN  IF n_long_dcas = 0 THEN TRUE
             ELSE /\ Len(active_dca_executors(df)) < max_per_side
                  /\ min_long_dca_average_price(df) # 0
                  /\ price * DistanceScale <
                       min_long_dca_average_price(df)
                         * (DistanceScale - min_distance_between_dca)

create_long_dca_flag(df, price, max_per_side) ==
    IF Len(df) = 0 THEN TRUE
    ELSE LET n_long_dcas == Len(long_dcas(df))
         IN  IF n_long_dcas = 0 THEN TRUE
             ELSE /\ n_long_dcas < max_per_side
                  /\ min_long_dca_average_price(df) # 0
                  /\ price * DistanceScale <
                       min_long_dca_average_price(df)
                         * (DistanceScale - min_distance_between_dca)

create_short_dca_flag(df, price, max_per_side) ==
    IF Len(df) = 0 THEN TRUE
    ELSE LET n_short_dcas == Len(short_dcas(df))
         IN  IF n_short_dcas = 0 THEN TRUE
             ELSE /\ n_short_dcas < max_per_side
                  /\ max_short_dca_average_price(df) # 0
                  /\ price * DistanceScale >
                       max_short_dca_average_price(df)
                         * (DistanceScale + min_distance_between_dca)

(* How many ids one call draws *)
DrawsNeeded(df, price, max_per_side) ==
    (IF create_long_dca_flag(df, price, max_per_side) THEN 1 ELSE 0)
    + (IF create_short_dca_flag(df, price, max_per_side) THEN 1 ELSE 0)

CreateShortFirst(df, price, max_per_side) ==     \* lines 130-133 in the other order
    LET long_flag == create_long_dca_flag(df, price, max_per_side)
        short_flag == create_short_dca_flag(df, price, max_per_side)
        short == IF short_flag THEN create_dca_action("SELL", price, uuid4(1))
                 ELSE [raised |-> FALSE, action |-> << >>]
        long == IF long_flag
                THEN create_dca_action("BUY", price,
                                       uuid4(IF short_flag THEN 2 ELSE 1))
                ELSE [raised |-> FALSE, action |-> << >>]
    IN  IF long.raised \/ short.raised
        THEN [raised |-> TRUE, proposal |-> << >>]
        ELSE [raised |-> FALSE, proposal |-> short.action \o long.action]

create_actions_proposal(df, price, max_per_side) ==
    LET long_flag == create_long_dca_flag(df, price, max_per_side)
        short_flag == create_short_dca_flag(df, price, max_per_side)
        long == IF long_flag THEN create_dca_action("BUY", price, uuid4(1))
                ELSE [raised |-> FALSE, action |-> << >>]
        short == IF short_flag
                 THEN create_dca_action("SELL", price,
                                        uuid4(IF long_flag THEN 2 ELSE 1))
                 ELSE [raised |-> FALSE, action |-> << >>]
    IN  IF long.raised \/ short.raised
        THEN [raised |-> TRUE, proposal |-> << >>]
        ELSE [raised |-> FALSE, proposal |-> long.action \o short.action]

----------------------------------------------------------------------------
(* stop_actions_proposal, lines 81-100 *)
IsStopCandidateAtRefresh(r) ==      \* <= instead of < on the age
    /\ r.status = "ACTIVE"
    /\ r.net_pnl_quote = 0
    /\ r.timestamp + dca_refresh_time <= now
    /\ r.filled_amount = 0

IsStopCandidateYoung(r) ==          \* > instead of < on the age
    /\ r.status = "ACTIVE"
    /\ r.net_pnl_quote = 0
    /\ r.timestamp + dca_refresh_time > now
    /\ r.filled_amount = 0

IsStopCandidate(r) ==
    /\ r.status = "ACTIVE"
    /\ r.net_pnl_quote = 0
    /\ r.timestamp + dca_refresh_time < now
    /\ r.filled_amount = 0

dcas_to_stop(df) == SelectSeq(df, IsStopCandidate)

RECURSIVE StopLoopWithoutAdd(_, _, _)
StopLoopWithoutAdd(rows, proposal, expired) ==     \* line 99 left out
    IF rows = << >> THEN [proposal |-> proposal, expired |-> expired]
    ELSE LET dca_id == Head(rows).dca_id
         IN  IF dca_id \in expired
             THEN StopLoopWithoutAdd(Tail(rows), proposal, expired)
             ELSE StopLoopWithoutAdd(Tail(rows),
                                     Append(proposal, StopDCAExecutorAction(dca_id)),
                                     expired)

(* The loop of lines 95-99 over the candidate rows, carrying the proposal  *)
(* and self.expired_dcas.                                                  *)
RECURSIVE StopLoop(_, _, _)
StopLoop(rows, proposal, expired) ==
    IF rows = << >> THEN [proposal |-> proposal, expired |-> expired]
    ELSE LET dca_id == Head(rows).dca_id
         IN  IF dca_id \in expired
             THEN StopLoop(Tail(rows), proposal, expired)
             ELSE StopLoop(Tail(rows),
                           Append(proposal, StopDCAExecutorAction(dca_id)),
                           expired \cup {dca_id})

StopWithoutDedup(df, expired) ==    \* the membership test of line 96 left out
    LET rows == SelectSeq(df, IsStopCandidate)
    IN  [proposal |-> [i \in 1..Len(rows) |-> StopDCAExecutorAction(rows[i].dca_id)],
         expired |-> expired \cup RowIds(rows)]

stop_actions_proposal(df, expired) ==
    IF Len(df) = 0 THEN [proposal |-> << >>, expired |-> expired]
    ELSE StopLoop(dcas_to_stop(df), << >>, expired)

----------------------------------------------------------------------------
(* store_actions_proposal, lines 160-172 *)
IsTerminated(r) == r.status = "TERMINATED"

dcas_to_store(df) == SelectSeq(df, IsTerminated)

StoreEveryRow(df) ==                \* the status filter of line 169 left out
    [i \in 1..Len(df) |-> StoreDCAExecutorAction(df[i].dca_id)]

store_actions_proposal(df) ==
    IF Len(df) = 0 THEN << >>
    ELSE [i \in 1..Len(dcas_to_store(df)) |->
            StoreDCAExecutorAction(dcas_to_store(df)[i].dca_id)]

----------------------------------------------------------------------------
(* determine_actions, lines 68-79: one tick of the control loop *)
ConcatenateStopFirst(create, stop, store) == stop \o create \o store

Concatenate(create, stop, store) == create \o stop \o store

(* What one call returns and what it leaves in self.expired_dcas.  A call  *)
(* in which create_actions_proposal raises returns nothing, and the stop   *)
(* and store proposals are never computed.                                 *)
UngatedResult(ready, price) ==      \* the readiness test of line 72 left out
    LET create == create_actions_proposal(dca_executors, price, max_dca_per_side)
        stop == stop_actions_proposal(dca_executors, expired_dcas)
        store == store_actions_proposal(dca_executors)
    IN  IF create.raised
        THEN [outcome |-> "raised", actions |-> << >>, expired |-> expired_dcas]
        ELSE [outcome |-> "returned",
              actions |-> Concatenate(create.proposal, stop.proposal, store),
              expired |-> stop.expired]

StopBeforeGate(ready, price) ==     \* the stop procedure run ahead of line 72
    LET stop == stop_actions_proposal(dca_executors, expired_dcas)
    IN  IF ready
        THEN LET create == create_actions_proposal(dca_executors, price,
                                                   max_dca_per_side)
                 store == store_actions_proposal(dca_executors)
             IN  IF create.raised
                 THEN [outcome |-> "raised", actions |-> << >>,
                       expired |-> stop.expired]
                 ELSE [outcome |-> "returned",
                       actions |-> Concatenate(create.proposal, stop.proposal,
                                               store),
                       expired |-> stop.expired]
        ELSE [outcome |-> "returned", actions |-> << >>, expired |-> stop.expired]

determine_actions_result(ready, price) ==
    IF ready
    THEN LET create == create_actions_proposal(dca_executors, price,
                                               max_dca_per_side)
         IN  IF create.raised
             THEN [outcome |-> "raised", actions |-> << >>,
                   expired |-> expired_dcas]
             ELSE LET stop == stop_actions_proposal(dca_executors, expired_dcas)
                      store == store_actions_proposal(dca_executors)
                  IN  [outcome |-> "returned",
                       actions |-> Concatenate(create.proposal, stop.proposal, store),
                       expired |-> stop.expired]
    ELSE [outcome |-> "returned", actions |-> << >>, expired |-> expired_dcas]

determine_actions(ready, price) ==
    /\ all_candles_ready' = ready
    /\ close_price' = price
    /\ expired_before' = expired_dcas
    /\ ready => Cardinality(FreeIds)
                  >= DrawsNeeded(dca_executors, price, max_dca_per_side)
    /\ \E result \in {determine_actions_result(ready, price)} :
           /\ outcome' = result.outcome
           /\ actions' = result.actions
           /\ expired_dcas' = result.expired
           /\ stop_count' =
                [id \in Uuids |->
                   stop_count[id]
                   + Cardinality({i \in 1..Len(result.actions) :
                                    /\ result.actions[i].type = "stop"
                                    /\ result.actions[i].dca_id = id})]
    /\ UNCHANGED << markets_vars, config, max_dca_per_side, dca_executors, now,
                    pending >>

(* The control loop calls determine_actions with whatever the market data  *)
(* provider reports at that moment; get_close_price is called only on a    *)
(* ready tick (line 104).                                                  *)
Tick ==
    \/ \E price \in Prices : determine_actions(TRUE, price)
    \/ determine_actions(FALSE, 0)

ReadyTick == \E price \in Prices : determine_actions(TRUE, price)

(* A tick on which the feed reports a price that is not positive *)
FaultTick == \E price \in InvalidPrices : determine_actions(TRUE, price)

----------------------------------------------------------------------------
(* The environment: the executor handler's report and the clock change     *)
(* between two calls.  The record of the previous call (what it read and   *)
(* what it returned) is cleared when the environment moves.                *)
Consumed ==
    /\ actions' = << >>
    /\ outcome' = "idle"
    /\ expired_before' = expired_dcas
    /\ close_price' = 0
    /\ all_candles_ready' = FALSE

(* A new executor appears in the report *)
ReportNewExecutor ==
    /\ Len(dca_executors) < MaxRows
    /\ FreeIds # {}
    /\ now \in OpenTimes
    /\ \E side \in Sides, status \in {"NOT_STARTED", "ACTIVE"} :
          dca_executors' = Append(dca_executors,
                                  Row(MinOf(FreeIds), side, status, now, 0, 0, 0))
    /\ Consumed
    /\ UNCHANGED << markets_vars, config, max_dca_per_side, expired_dcas, now, stop_count, pending >>

(* An executor moves on in its life: NOT_STARTED -> ACTIVE -> TERMINATED *)
ExecutorStatus ==
    /\ \E i \in 1..Len(dca_executors) :
          /\ dca_executors[i].status # "TERMINATED"
          /\ dca_executors' =
                [dca_executors EXCEPT ![i].status =
                    IF @ = "NOT_STARTED" THEN "ACTIVE" ELSE "TERMINATED"]
    /\ Consumed
    /\ UNCHANGED << markets_vars, config, max_dca_per_side, expired_dcas, now, stop_count, pending >>

(* An order of an active executor is filled *)
ExecutorFill ==
    /\ \E i \in 1..Len(dca_executors), p \in FillPrices :
          /\ dca_executors[i].status = "ACTIVE"
          /\ dca_executors[i].filled_amount = 0
          /\ dca_executors[i].net_pnl_quote = 0
          /\ dca_executors' =
                [dca_executors EXCEPT ![i].filled_amount = 1,
                                      ![i].current_position_average_price = p]
    /\ Consumed
    /\ UNCHANGED << markets_vars, config, max_dca_per_side, expired_dcas, now, stop_count, pending >>

(* An active executor reports a profit or loss (fees, funding) *)
ExecutorPnl ==
    /\ \E i \in 1..Len(dca_executors) :
          /\ dca_executors[i].status = "ACTIVE"
          /\ dca_executors[i].net_pnl_quote = 0
          /\ dca_executors[i].filled_amount = 0
          /\ dca_executors' = [dca_executors EXCEPT ![i].net_pnl_quote = 1]
    /\ Consumed
    /\ UNCHANGED << markets_vars, config, max_dca_per_side, expired_dcas, now, stop_count, pending >>

ClockAdvance ==
    /\ now + dca_refresh_time \in Times
    /\ now' = now + dca_refresh_time
    /\ Consumed
    /\ UNCHANGED << markets_vars, config, max_dca_per_side, expired_dcas, dca_executors, stop_count,
                    pending >>

----------------------------------------------------------------------------
(* The execution engine in the closed loop: it opens an executor only for  *)
(* a create action the controller returned, and it may do so late, or not  *)
(* at all.                                                                 *)
IsCreate(a) == a.type = "create"
IsStop(a) == a.type = "stop"
IsStore(a) == a.type = "store"

EngineAccept ==
    /\ outcome = "returned"
    /\ SelectSeq(actions, IsCreate) # << >>
    /\ pending' = pending \cup {[dca_id |-> c.dca_id, side |-> c.side,
                                  timestamp |-> c.timestamp] :
                                    c \in Range(SelectSeq(actions, IsCreate))}
    /\ Consumed
    /\ UNCHANGED << markets_vars, config, max_dca_per_side, expired_dcas, dca_executors, now,
                    stop_count >>

EngineOpen ==
    /\ Len(dca_executors) < MaxRows
    /\ \E c \in pending :
          /\ dca_executors' = Append(dca_executors,
                                     Row(c.dca_id, c.side, "ACTIVE", c.timestamp,
                                         0, 0, 0))
          /\ pending' = pending \ {c}
    /\ Consumed
    /\ UNCHANGED << markets_vars, config, max_dca_per_side, expired_dcas, now, stop_count >>

EngineReject ==
    /\ \E c \in pending : pending' = pending \ {c}
    /\ Consumed
    /\ UNCHANGED << markets_vars, config, max_dca_per_side, expired_dcas, dca_executors, now,
                    stop_count >>

(* The host registers the controller's market in its mapping *)
RegisterMarkets ==
    /\ markets_calls < MaxCalls
    /\ markets_dict' = update_strategy_markets_dict(markets_dict)
    /\ markets_before' = markets_dict
    /\ markets_calls' = markets_calls + 1
    /\ UNCHANGED << config, max_dca_per_side, expired_dcas, dca_executors, now,
                    close_price, all_candles_ready, actions, outcome,
                    expired_before, stop_count, pending >>

----------------------------------------------------------------------------
(* The mapping of line 61's default argument: empty *)
NoMarkets == [e \in {} |-> {}]

Init ==
    /\ markets_dict = NoMarkets
    /\ markets_before = NoMarkets
    /\ markets_calls = 0
    /\ config = DefaultConfig
    /\ max_dca_per_side \in PerSideValues
    /\ expired_dcas = {}
    /\ dca_executors = << >>
    /\ now = 0
    /\ close_price = 0
    /\ all_candles_ready = FALSE
    /\ actions = << >>
    /\ outcome = "idle"
    /\ expired_before = {}
    /\ stop_count = [id \in Uuids |-> 0]
    /\ pending = {}

Environment ==
    \/ ReportNewExecutor
    \/ ExecutorStatus
    \/ ExecutorFill
    \/ ExecutorPnl
    \/ ClockAdvance

(* The controller under any report, with a sound price feed *)
Next ==
    \/ Tick
    \/ Environment

Spec == Init /\ [][Next]_vars

(* The same, with a feed that may also report prices that are not positive *)
FaultNext ==
    \/ Tick
    \/ FaultTick
    \/ Environment

FaultSpec == Init /\ [][FaultNext]_vars

(* The controller in the closed loop with the engine *)
LoopInit ==
    /\ Init
    /\ max_dca_per_side >= 1

LoopNext ==
    \/ Tick
    \/ EngineAccept
    \/ EngineOpen
    \/ EngineReject
    \/ ExecutorStatus
    \/ ExecutorFill

LoopSpec == LoopInit /\ [][LoopNext]_vars

(* The controller constructed from any configuration of Configs.  The      *)
(* constructor (lines 51-59) accepts every one of them.                    *)
ConfigInit ==
    /\ markets_dict = NoMarkets
    /\ markets_before = NoMarkets
    /\ markets_calls = 0
    /\ config \in Configs
    /\ max_dca_per_side \in PerSideValues
    /\ expired_dcas = {}
    /\ dca_executors = << >>
    /\ now = 0
    /\ close_price = 0
    /\ all_candles_ready = FALSE
    /\ actions = << >>
    /\ outcome = "idle"
    /\ expired_before = {}
    /\ stop_count = [id \in Uuids |-> 0]
    /\ pending = {}

ConfigNext ==
    \/ Tick
    \/ ReportNewExecutor

ConfigSpec == ConfigInit /\ [][ConfigNext]_vars

(* update_strategy_markets_dict applied to any mapping the host may hold *)
MarketMappings ==
    UNION {[keys -> SUBSET TradingPairs] : keys \in SUBSET Exchanges}

MarketsInit ==
    /\ markets_dict \in MarketMappings
    /\ markets_before = markets_dict
    /\ markets_calls = 0
    /\ config = DefaultConfig
    /\ max_dca_per_side \in PerSideValues
    /\ expired_dcas = {}
    /\ dca_executors = << >>
    /\ now = 0
    /\ close_price = 0
    /\ all_candles_ready = FALSE
    /\ actions = << >>
    /\ outcome = "idle"
    /\ expired_before = {}
    /\ stop_count = [id \in Uuids |-> 0]
    /\ pending = {}

MarketsNext == RegisterMarkets

(* The host: it registers the markets and runs the ticks, while executors  *)
(* are reported, change status and age.                                    *)
HostNext ==
    \/ RegisterMarkets
    \/ Tick
    \/ FaultTick
    \/ ReportNewExecutor
    \/ ExecutorStatus
    \/ ClockAdvance

HostSpec == Init /\ [][HostNext]_vars

(* The scheduler keeps calling determine_actions with ready candles and    *)
(* the clock keeps advancing (up to the last of Times); the configuration  *)
(* is the default one.  A ready tick is possible in every state, so that   *)
(* ready ticks keep occurring is what weak fairness of ReadyTick says.     *)
LiveInit ==
    /\ Init
    /\ max_dca_per_side = DefaultMaxPerSide

LiveSpec ==
    /\ LiveInit
    /\ [][Next]_vars
    /\ []<><<ReadyTick>>_vars
    /\ WF_vars(ClockAdvance)

MarketsSpec == MarketsInit /\ [][MarketsNext]_vars

----------------------------------------------------------------------------
(* Vocabulary of the properties.  A state with outcome # "idle" is the     *)
(* state right after a call: dca_executors, now, close_price and           *)
(* all_candles_ready are what the call read, actions is what it returned,  *)
(* expired_before is the dedup memory it started with.                     *)
Called == outcome # "idle"
ReadyCall == Called /\ all_candles_ready

RowIdx == 1..Len(dca_executors)
ActIdx == 1..Len(actions)

HasCreate(side) ==
    \E k \in ActIdx : actions[k].type = "create" /\ actions[k].side = side
HasStop(id) == \E k \in ActIdx : actions[k].type = "stop" /\ actions[k].dca_id = id
HasStore(id) == \E k \in ActIdx : actions[k].type = "store" /\ actions[k].dca_id = id

NonTerminatedOn(side) ==
    {i \in RowIdx : /\ dca_executors[i].status # "TERMINATED"
                    /\ dca_executors[i].side = side}
CountOn(side) == Cardinality(NonTerminatedOn(side))

ReferenceAverage(side) ==
    LET avgs == {dca_executors[i].current_position_average_price :
                    i \in NonTerminatedOn(side)}
    IN  IF side = "BUY" THEN MinOf(avgs) ELSE MaxOf(avgs)

BeyondDistance(side) ==
    IF side = "BUY"
    THEN close_price * DistanceScale
           < ReferenceAverage(side) * (DistanceScale - min_distance_between_dca)
    ELSE close_price * DistanceScale
           > ReferenceAverage(side) * (DistanceScale + min_distance_between_dca)

AtDistance(side) ==
    IF side = "BUY"
    THEN close_price * DistanceScale
           = ReferenceAverage(side) * (DistanceScale - min_distance_between_dca)
    ELSE close_price * DistanceScale
           = ReferenceAverage(side) * (DistanceScale + min_distance_between_dca)

Stale(i) ==
    /\ dca_executors[i].status = "ACTIVE"
    /\ dca_executors[i].net_pnl_quote = 0
    /\ dca_executors[i].filled_amount = 0
    /\ now > dca_executors[i].timestamp + dca_refresh_time

KindRank(a) == IF a.type = "create" THEN 1 ELSE IF a.type = "stop" THEN 2 ELSE 3

----------------------------------------------------------------------------
(* C1: over any sequence of ticks, a stop action for a given executor id   *)
(* is returned at most once; a ladder that is still ACTIVE, unfilled,      *)
(* zero-PnL and stale on a later tick is not stopped again.                *)
C1_StopAtMostOnce == \A id \in Uuids : stop_count[id] <= 1

(* a later ready tick on a row that is still stale and was stopped before *)
C1_Witness ==
    /\ ReadyCall
    /\ outcome = "returned"
    /\ \E i \in RowIdx :
          /\ Stale(i)
          /\ dca_executors[i].dca_id \in expired_before
          /\ stop_count[dca_executors[i].dca_id] = 1
          /\ ~HasStop(dca_executors[i].dca_id)

(* C2: when the candles are not ready, determine_actions returns the empty *)
(* list, whatever the report holds.                                        *)
C2_NotReadyReturnsEmpty ==
    (Called /\ ~all_candles_ready) => (outcome = "returned" /\ actions = << >>)

(* a not-ready call on a report with a stale row and a terminated row *)
C2_Witness ==
    /\ Called
    /\ ~all_candles_ready
    /\ actions = << >>
    /\ \E i \in RowIdx : Stale(i) /\ dca_executors[i].dca_id \notin expired_before
    /\ \E i \in RowIdx : dca_executors[i].status = "TERMINATED"

(* C3: on a ready tick the returned list is ordered by kind: creates, then *)
(* stops, then stores.                                                     *)
C3_OrderedByKind ==
    ReadyCall =>
        \A j \in ActIdx, k \in ActIdx :
            j < k => KindRank(actions[j]) <= KindRank(actions[k])

(* a ready call that returned all three kinds *)
C3_Witness ==
    /\ ReadyCall
    /\ \E k \in ActIdx : actions[k].type = "create"
    /\ \E k \in ActIdx : actions[k].type = "stop"
    /\ \E k \in ActIdx : actions[k].type = "store"

(* C4: a side with no non-terminated ladder gets a create action, whatever *)
(* the price and max_dca_per_side; an empty report yields exactly two      *)
(* create actions, one BUY and one SELL.                                   *)
C4_CreateOnEmptySide ==
    ReadyCall =>
        /\ \A side \in Sides : NonTerminatedOn(side) = {} => HasCreate(side)
        /\ dca_executors = << >> =>
              /\ Cardinality({k \in ActIdx : actions[k].type = "create"}) = 2
              /\ HasCreate("BUY")
              /\ HasCreate("SELL")

(* a side holding only a terminated ladder, with max_dca_per_side = 0 *)
C4_Witness ==
    /\ ReadyCall
    /\ max_dca_per_side = 0
    /\ \E i \in RowIdx : /\ dca_executors[i].side = "BUY"
                         /\ dca_executors[i].status = "TERMINATED"
    /\ NonTerminatedOn("BUY") = {}
    /\ NonTerminatedOn("SELL") # {}
    /\ HasCreate("BUY")

(* C5: on a side with a non-terminated ladder, a create action is returned *)
(* iff the count is below max_dca_per_side, the reference average (min for *)
(* BUY, max for SELL) is not zero, and the close price is strictly beyond  *)
(* the distance threshold.                                                 *)
C5_CreateIffDistance ==
    ReadyCall =>
        \A side \in Sides :
            NonTerminatedOn(side) # {} =>
                (HasCreate(side) <=>
                    /\ CountOn(side) < max_dca_per_side
                    /\ ReferenceAverage(side) # 0
                    /\ BeyondDistance(side))

(* a close price exactly at the threshold of a side that could still grow: *)
(* no create                                                               *)
C5_Witness ==
    /\ ReadyCall
    /\ \E side \in Sides :
          /\ NonTerminatedOn(side) # {}
          /\ CountOn(side) < max_dca_per_side
          /\ ReferenceAverage(side) # 0
          /\ AtDistance(side)
          /\ ~HasCreate(side)

(* C6 as stated: whenever the count of non-terminated ladders of a side is *)
(* at least max_dca_per_side (0 included), no create action for that side. *)
C6_Original ==
    ReadyCall =>
        \A side \in Sides :
            CountOn(side) >= max_dca_per_side => ~HasCreate(side)

(* C6 as amended: whenever a side has at least one non-terminated ladder   *)
(* and their count is at least max_dca_per_side, no create action for that *)
(* side is returned.                                                       *)
C6_CapOnOccupiedSide ==
    ReadyCall =>
        \A side \in Sides :
            (CountOn(side) >= 1 /\ CountOn(side) >= max_dca_per_side)
                => ~HasCreate(side)

(* a full side with a real reference average and the price beyond the      *)
(* distance: only the cap holds the create back                            *)
C6_Witness ==
    /\ ReadyCall
    /\ \E side \in Sides :
          /\ CountOn(side) >= 1
          /\ CountOn(side) = max_dca_per_side
          /\ ReferenceAverage(side) # 0
          /\ BeyondDistance(side)
          /\ ~HasCreate(side)

(* C7: in the closed loop, where the engine opens executors only for       *)
(* returned create actions but possibly ticks later, the number of         *)
(* non-terminated ladders of a side never exceeds max_dca_per_side when a  *)
(* create decision is evaluated.                                           *)
C7_Original ==
    ReadyCall => \A side \in Sides : CountOn(side) <= max_dca_per_side

(* C8: stop_actions_proposal returns a stop action for a row's id iff the  *)
(* row is ACTIVE, its PnL is zero, its filled amount is zero, the clock is *)
(* strictly past timestamp + dca_refresh_time, and the id is not in the    *)
(* dedup memory.                                                           *)
C8_StopIffStale ==
    ReadyCall =>
        \A i \in RowIdx :
            HasStop(dca_executors[i].dca_id) <=>
                (Stale(i) /\ dca_executors[i].dca_id \notin expired_before)

(* one row stopped while another, aged exactly dca_refresh_time, is not *)
C8_Witness ==
    /\ ReadyCall
    /\ \E i \in RowIdx : HasStop(dca_executors[i].dca_id)
    /\ \E i \in RowIdx :
          /\ dca_executors[i].status = "ACTIVE"
          /\ dca_executors[i].net_pnl_quote = 0
          /\ dca_executors[i].filled_amount = 0
          /\ now = dca_executors[i].timestamp + dca_refresh_time
          /\ dca_executors[i].dca_id \notin expired_before
          /\ ~HasStop(dca_executors[i].dca_id)

(* C9: on a ready tick the store actions returned are exactly one per      *)
(* TERMINATED row, in the order of the report, and none for other rows;    *)
(* nothing is remembered, so every tick returns them again.                *)
TerminatedIdx == {i \in RowIdx : dca_executors[i].status = "TERMINATED"}
StoreIdx == {k \in ActIdx : actions[k].type = "store"}
RankIn(S, x) == Cardinality({y \in S : y <= x})

C9_StoreEveryTerminated ==
    ReadyCall =>
        /\ Cardinality(StoreIdx) = Cardinality(TerminatedIdx)
        /\ \A k \in StoreIdx, i \in TerminatedIdx :
              RankIn(StoreIdx, k) = RankIn(TerminatedIdx, i)
                  => actions[k].dca_id = dca_executors[i].dca_id

(* a second ready tick in a row on a report with a terminated row whose    *)
(* stop was remembered earlier, and an active row: one store, again        *)
C9_Witness ==
    /\ ReadyCall
    /\ Cardinality(TerminatedIdx) = 1
    /\ Cardinality(StoreIdx) = 1
    /\ \E i \in RowIdx : dca_executors[i].status = "ACTIVE"
    /\ \E i \in TerminatedIdx : /\ dca_executors[i].dca_id \in expired_before
                                /\ HasStore(dca_executors[i].dca_id)

(* C10: with a close price that is zero or negative the ladder factory     *)
(* fails instead of returning a ladder, so no create action built from     *)
(* such a price is returned.                                               *)
C10_Original ==
    (ReadyCall /\ close_price <= 0) =>
        \A k \in ActIdx : actions[k].type # "create"

(* C11: a ready tick whose close price is not positive, so that the create *)
(* path cannot build a ladder, still returns: a stop action for every      *)
(* stale row not yet remembered, a store action for every TERMINATED row,  *)
(* and the stopped ids are added to the dedup memory.                      *)
C11_Original ==
    (ReadyCall /\ close_price <= 0) =>
        /\ outcome = "returned"
        /\ \A i \in RowIdx :
              (Stale(i) /\ dca_executors[i].dca_id \notin expired_before)
                  => /\ HasStop(dca_executors[i].dca_id)
                     /\ dca_executors[i].dca_id \in expired_dcas
        /\ \A i \in TerminatedIdx : HasStore(dca_executors[i].dca_id)

(* C12: on a side with non-terminated ladders, whenever at least one of    *)
(* them reports the average fill price zero, no create action is returned  *)
(* for that side, whatever the close price and the other averages.         *)
ReportsZeroAverage(side) ==
    \E i \in NonTerminatedOn(side) :
        dca_executors[i].current_position_average_price = 0

C12_Original ==
    ReadyCall =>
        \A side \in Sides : ReportsZeroAverage(side) => ~HasCreate(side)


(* C13: every ladder built from a positive close price has strictly        *)
(* monotonic price levels, decreasing with the level index for BUY and     *)
(* increasing for SELL, for every configuration with n_levels >= 1,        *)
(* positive spreads and spread_ratio_increase > 1, whatever the order of   *)
(* top_order_start_spread and start_spread.                                *)
StrictlyAway(a) ==
    \A j \in 1..Len(a.prices), k \in 1..Len(a.prices) :
        j < k => IF a.side = "BUY" THEN a.prices[j] > a.prices[k]
                                   ELSE a.prices[j] < a.prices[k]

C13_Original ==
    (/\ ReadyCall
     /\ close_price > 0
     /\ config.n_levels >= 1
     /\ config.top_order_start_spread > 0
     /\ config.start_spread > 0
     /\ config.spread_ratio_increase > 1)
        => \A k \in ActIdx : actions[k].type = "create" => StrictlyAway(actions[k])

(* C14: no controller with n_levels < 1 gets to return actions: every      *)
(* ladder returned has exactly n_levels price levels and n_levels amounts, *)
(* with n_levels >= 1.                                                     *)
C14_Original ==
    \A k \in ActIdx :
        actions[k].type = "create" =>
            /\ config.n_levels >= 1
            /\ Len(actions[k].prices) = config.n_levels
            /\ Len(actions[k].amounts_quote) = config.n_levels

(* C15: update_strategy_markets_dict is additive and idempotent: after a   *)
(* call the mapping holds the configured pair under the configured         *)
(* exchange and every exchange/pair entry it held before, and a second     *)
(* call on the result changes nothing.                                     *)
C15_AdditiveIdempotent ==
    /\ markets_calls >= 1 =>
          /\ exchange \in DOMAIN markets_dict
          /\ trading_pair \in markets_dict[exchange]
          /\ \A e \in DOMAIN markets_before :
                /\ e \in DOMAIN markets_dict
                /\ markets_before[e] \subseteq markets_dict[e]
    /\ markets_calls >= 2 => markets_dict = markets_before

(* a second call on a mapping that held other pairs under the configured   *)
(* exchange and another exchange before the first                          *)
C15_Witness ==
    /\ markets_calls = 2
    /\ \E e \in DOMAIN markets_dict : e # exchange /\ markets_dict[e] # {}
    /\ \E p \in markets_dict[exchange] : p # trading_pair

(* C16: the create decision of a side does not depend on the rows of the   *)
(* other side nor on TERMINATED rows: the decision taken on the report is  *)
(* the decision the same price gives on the report reduced to the          *)
(* non-terminated rows of that side, so any two reports that agree on      *)
(* those rows get the same decision; both sides may fire on one tick.      *)
C16_SideIndependent ==
    ReadyCall =>
        /\ HasCreate("BUY") <=>
              create_long_dca_flag(long_dcas(dca_executors), close_price,
                                   max_dca_per_side)
        /\ HasCreate("SELL") <=>
              create_short_dca_flag(short_dcas(dca_executors), close_price,
                                    max_dca_per_side)

(* both sides fire on one tick: the BUY create is decided on distance, the *)
(* SELL create because the only SELL row of the report is TERMINATED       *)
C16_Witness ==
    /\ ReadyCall
    /\ NonTerminatedOn("BUY") # {}
    /\ \E i \in TerminatedIdx : dca_executors[i].side = "SELL"
    /\ HasCreate("BUY")
    /\ HasCreate("SELL")

(* C17: in every reachable state the dedup memory is exactly the set of    *)
(* ids for which a stop action has been returned so far, and a call never  *)
(* removes an id from it.                                                  *)
StoppedSoFar == {id \in Uuids : stop_count[id] >= 1}

C17_MemoryIsStoppedIds ==
    /\ expired_dcas = StoppedSoFar
    /\ expired_before \subseteq expired_dcas

(* a call that adds an id to a memory that already held another one *)
C17_Witness ==
    /\ ReadyCall
    /\ expired_before # {}
    /\ expired_dcas # expired_before
    /\ \E id \in expired_before : ~HasStop(id)
    /\ \E id \in expired_dcas \ expired_before : HasStop(id)

(* C18: a tick returns at most one create action per side, so at most two; *)
(* when it returns two, the BUY create comes before the SELL create and    *)
(* the two carry different ids.                                            *)
CreateIdx(side) ==
    {k \in ActIdx : actions[k].type = "create" /\ actions[k].side = side}

C18_OneCreatePerSide ==
    ReadyCall =>
        /\ \A side \in Sides : Cardinality(CreateIdx(side)) <= 1
        /\ \A j \in CreateIdx("BUY"), k \in CreateIdx("SELL") :
              /\ j < k
              /\ actions[j].dca_id # actions[k].dca_id

(* a tick on a report with rows that returns both creates *)
C18_Witness ==
    /\ ReadyCall
    /\ dca_executors # << >>
    /\ CreateIdx("BUY") # {}
    /\ CreateIdx("SELL") # {}
    /\ \E k \in ActIdx : actions[k].type # "create"

(* C19: the dedup memory is changed only by the stop procedure of a ready  *)
(* tick, which adds the ids it returns stop actions for; a tick that is    *)
(* not ready, the create and store procedures and                          *)
(* update_strategy_markets_dict leave it as it is; no operation of the     *)
(* controller changes the rows of the report or the configuration.         *)
StopIdsOf(acts) ==
    {acts[k].dca_id : k \in {j \in 1..Len(acts) : acts[j].type = "stop"}}

ControllerStep == outcome' # "idle" \/ markets_calls' # markets_calls

C19_Frame ==
    [][/\ expired_dcas' # expired_dcas =>
             /\ all_candles_ready'
             /\ outcome' = "returned"
             /\ markets_calls' = markets_calls
             /\ expired_dcas' = expired_dcas \cup StopIdsOf(actions')
       /\ ControllerStep =>
             /\ dca_executors' = dca_executors
             /\ config' = config
             /\ max_dca_per_side' = max_dca_per_side]_vars

(* a ready tick that returns a create and a store and no stop, on a memory *)
(* that holds an id, after the markets were registered                     *)
C19_Witness ==
    /\ ReadyCall
    /\ markets_calls >= 1
    /\ expired_dcas # {}
    /\ expired_dcas = expired_before
    /\ \E k \in ActIdx : actions[k].type = "create"
    /\ \E k \in ActIdx : actions[k].type = "store"

(* C20: with ready ticks that keep occurring and a clock that keeps        *)
(* advancing, a ladder reported ACTIVE with zero filled amount and zero    *)
(* PnL from some tick on eventually gets a stop action, and exactly one.   *)
(* The clock of the model ends at the last of Times: the ladders meant are *)
(* those whose refresh time ends before it.                                *)
LastTime == MaxOf(Times)

StaysUnfilled(id) ==
    \E i \in RowIdx :
        /\ dca_executors[i].dca_id = id
        /\ dca_executors[i].status = "ACTIVE"
        /\ dca_executors[i].net_pnl_quote = 0
        /\ dca_executors[i].filled_amount = 0
        /\ dca_executors[i].timestamp + dca_refresh_time < LastTime

C20_StaleEventuallyStopped ==
    \A id \in 1..MaxRows : <>[]StaysUnfilled(id) => <>[](stop_count[id] = 1)

(* the tick that returns the stop action of a ladder gone stale *)
C20_Witness ==
    /\ ReadyCall
    /\ now = LastTime
    /\ \E i \in RowIdx :
          /\ Stale(i)
          /\ HasStop(dca_executors[i].dca_id)
          /\ stop_count[dca_executors[i].dca_id] = 1

====
